---- MODULE Spec2Model ----
(***************************************************************************)
(* Position lifecycle of src/pump_fun_bot.py: the discovery loop           *)
(* (monitor_and_trade), the execution engine (buy_token, sell_token), the  *)
(* per-position monitor tasks (monitor_price) and the in-memory ledger     *)
(* open_positions.                                                         *)
(*                                                                         *)
(* Scheduling.  The bot runs on one asyncio event loop.  A task is only    *)
(* suspended where it awaits something that really yields: the two         *)
(* asyncio.sleep calls (lines 361/374/379 and 434).  buy_token,            *)
(* sell_token and fetch_new_tokens are coroutines without any await        *)
(* inside, so awaiting them runs them to completion without a switch.      *)
(* Hence one pass of the for loop, one monitor tick (including the sell it *)
(* may make) are atomic, and monitors only run while the discovery loop    *)
(* sleeps at line 434.                                                     *)
(*                                                                         *)
(* Units.  Prices and the budget are in units of 0.001 quote currency      *)
(* (AMOUNT_SOL = 10 is the source's 0.01), quantities in whole tokens,     *)
(* time in whole seconds since the process started.  The prices used       *)
(* divide the budget exactly, so budget / price is the exact quotient.     *)
(***************************************************************************)
EXTENDS Integers, Sequences, FiniteSets, TLC

\* ------------------------------------------------------------------ bounds
MaxOrders == 3
MaxTokens == 2
MaxTime == 1

\* ------------------------------------------------------- program constants
PROFIT_MULTIPLIER == 5
AMOUNT_SOL == 10
MIN_AGE_HOURS == 5
MAX_AGE_HOURS == 10
MIN_MARKET_CAP == 5000
MAX_MARKET_CAP == 10000
SecondsPerHour == 3600
HTTP_OK == 200
MainTask == 0

\* ------------------------------------------------------------ input sets
Addrs == {"A", "B"}
\* Age in seconds and market cap of the candidates drawn: both at an end of
\* their windows, or one of them one step outside its window.
Profiles ==
    LET lo == MIN_AGE_HOURS * SecondsPerHour
        hi == MAX_AGE_HOURS * SecondsPerHour
        p(age, cap) == [age |-> age, market_cap |-> cap]
    IN  {p(lo, MIN_MARKET_CAP), p(hi, MAX_MARKET_CAP),
         p(lo - 1, MIN_MARKET_CAP), p(hi + 1, MAX_MARKET_CAP),
         p(lo, MIN_MARKET_CAP - 1), p(hi, MAX_MARKET_CAP + 1)}
BidPrices == {0, 5, 10}
AskPrices == {24, 25, 50}

\* A candidate as fetch_new_tokens returns it, fetched at time `clock`.
Tokens(clock) ==
    {[contract_address |-> a, launch_time |-> clock - p.age,
      market_cap |-> p.market_cap, has_live_streams |-> live] :
        a \in Addrs, p \in Profiles, live \in BOOLEAN}

\* What a read of the venue's book gives: an exception, an empty book, or
\* the top entry, whose element [0] is the price.
BookReads(prices) ==
    {[status |-> "raise", price |-> 0], [status |-> "empty", price |-> 0]}
        \cup {[status |-> "ok", price |-> p] : p \in prices}

\* What solana_client.send_transaction does with an order.
SubmitOutcomes == {"accepted", "rejected"}

\* Responses of the RugCheck endpoint: the call raises, or an HTTP status
\* with the isRugPull field of the body ("absent" when the body lacks it).
RugResponses ==
    {[raises |-> TRUE, status_code |-> 0, isRugPull |-> "absent"],
     [raises |-> FALSE, status_code |-> 500, isRugPull |-> "absent"]}
        \cup [raises : {FALSE}, status_code : {HTTP_OK},
              isRugPull : {"absent", "true", "false"}]

\* Responses of the Getmoni endpoint: the call raises, or an HTTP status
\* with the number of entries of the body's socialMedia object.
SocialResponses ==
    {[raises |-> TRUE, status_code |-> 0, socialMedia |-> 0],
     [raises |-> FALSE, status_code |-> 500, socialMedia |-> 1]}
        \cup [raises : {FALSE}, status_code : {HTTP_OK}, socialMedia : {0, 1}]

\* ------------------------------------------------------------------ state
VARIABLES
    open_positions,  \* the ledger: address -> [initial_price, amount]
    loop_pc,         \* monitor_and_trade: "start", "iterate", "sleep", and
                     \* "exited" once an exception has left its while loop
    pending,         \* candidates of the current cycle the for loop has not reached
    monitors,        \* the monitor_price tasks created so far, in creation order
    orders,          \* the orders send_transaction accepted, in order: side,
                     \* address and client id of each
    sent,            \* the orders the latest step handed to send_transaction
    submitted,       \* per address: the sell orders handed to send_transaction
                     \* since the address was last bought
    now,             \* the clock, whole seconds
    log,             \* the log lines written by the latest step
    screened         \* what the pass of the for loop just made has read (the
                     \* candidate's fields, its age, the collaborators'
                     \* answers), in the runs that keep it

vars == <<open_positions, loop_pc, pending, monitors, orders, sent, submitted, now, log,
          screened>>

Line(task, msg, token, price) ==
    [task |-> task, msg |-> msg, token |-> token, price |-> price]

\* ----------------------------------------------------------------- ledger
Held(pos, address) == address \in DOMAIN pos

Insert(pos, address, entry) ==
    [a \in DOMAIN pos \cup {address} |-> IF a = address THEN entry ELSE pos[a]]

RemoveAll(pos, address) == << >>

Remove(pos, address) == [a \in DOMAIN pos \ {address} |-> pos[a]]

\* --------------------------------------------------------------- screening
\* time_since_launch, kept in seconds: the source divides by 3600 and
\* compares with 5 and 10, which on whole seconds is this comparison.
time_since_launch(launch_time, clock) == clock - launch_time

AgeInWindowStrict(age_seconds) ==
    /\ MIN_AGE_HOURS * SecondsPerHour < age_seconds
    /\ age_seconds < MAX_AGE_HOURS * SecondsPerHour

AgeInWindow(age_seconds) ==
    /\ MIN_AGE_HOURS * SecondsPerHour <= age_seconds
    /\ age_seconds <= MAX_AGE_HOURS * SecondsPerHour

CapInWindow(market_cap) ==
    MIN_MARKET_CAP <= market_cap /\ market_cap <= MAX_MARKET_CAP

check_rug_pull_open(resp) ==
    IF resp.raises THEN TRUE
    ELSE IF resp.status_code = HTTP_OK THEN resp.isRugPull # "true"
    ELSE FALSE

check_rug_pull(resp) ==
    IF resp.raises THEN FALSE
    ELSE IF resp.status_code = HTTP_OK THEN resp.isRugPull # "true"
    ELSE FALSE

check_social_media(resp) ==
    IF resp.raises THEN FALSE
    ELSE IF resp.status_code = HTTP_OK THEN resp.socialMedia >= 1
    ELSE FALSE

AlreadyHoldingNever(pos, address) == FALSE

\* if token['contract_address'] in open_positions
AlreadyHolding(pos, address) == Held(pos, address)

\* ------------------------------------------------------- execution engine
ClientId(clock) == clock

\* market.make_order(...): the order of a call for `address`.
Order(side, address, price, quantity, clock) ==
    [side |-> side, token |-> address, limit_price |-> price,
     max_quantity |-> quantity, client_id |-> ClientId(clock)]

\* What is kept of an order the venue accepted.
Accepted(order) ==
    [side |-> order.side, token |-> order.token, client_id |-> order.client_id]

\* The ledger after the send of a buy order (lines 268-276): the position
\* is recorded once send_transaction has returned, and not when it raises.
buy_ledger_eager(pos, address, price, quantity, submit) ==
    Insert(pos, address, [initial_price |-> price, amount |-> quantity])

buy_ledger_forgets(pos, address, price, quantity, submit) == pos

buy_ledger(pos, address, price, quantity, submit) ==
    IF submit = "accepted"
    THEN Insert(pos, address, [initial_price |-> price, amount |-> quantity])
    ELSE pos

\* buy_token run by task `task`: the value it returns, the order it hands
\* to send_transaction, the ledger and the accepted orders it leaves, and
\* the lines it logs.
buy_token(task, token, amount_sol, best_bid, submit, pos, ords, clock) ==
    LET address == token.contract_address
        quiet(msg) == [ret |-> FALSE, sent |-> << >>,
                       open_positions |-> pos, orders |-> ords,
                       log |-> <<Line(task, msg, address, best_bid.price)>>]
    IN  IF best_bid.status = "raise" THEN quiet("buy_error")
        ELSE IF best_bid.status = "empty" THEN quiet("no_bids")
        ELSE IF best_bid.price = 0 THEN quiet("buy_error")
        ELSE
            LET price == best_bid.price
                quantity == amount_sol \div price
                order == Order("buy", address, price, quantity, clock)
                ok == submit = "accepted"
            IN  [ret |-> ok, sent |-> <<order>>,
                 open_positions |-> buy_ledger(pos, address, price, quantity, submit),
                 orders |-> IF ok THEN Append(ords, Accepted(order)) ELSE ords,
                 log |-> <<Line(task, "buying", address, price),
                           Line(task, IF ok THEN "buy_sent" ELSE "buy_error",
                                address, price)>>]

BelowTargetNever(current_price, target_price) == FALSE

BelowTarget(current_price, target_price) == current_price < target_price

\* The ledger after the send of a sell order (lines 329-333).
sell_ledger_eager(pos, address, submit) == Remove(pos, address)

sell_ledger(pos, address, submit) ==
    IF submit = "accepted" THEN Remove(pos, address) ELSE pos

\* sell_token run by task `task`.  When the venue accepts the order and the
\* ledger has no entry to delete, the del raises and the call fails.
sell_token(task, address, initial_price, amount_tokens, best_ask, submit, pos, ords, clock) ==
    LET target_price == initial_price * PROFIT_MULTIPLIER
        quiet(msg) == [ret |-> FALSE, sent |-> << >>,
                       open_positions |-> pos, orders |-> ords,
                       log |-> <<Line(task, msg, address, best_ask.price)>>]
    IN  IF best_ask.status = "raise" THEN quiet("sell_error")
        ELSE IF best_ask.status = "empty" THEN quiet("no_asks_sell")
        ELSE IF BelowTarget(best_ask.price, target_price) THEN quiet("below_target")
        ELSE
            LET current_price == best_ask.price
                order == Order("sell", address, current_price, amount_tokens, clock)
                ok == submit = "accepted"
            IN  [ret |-> ok /\ Held(pos, address), sent |-> <<order>>,
                 open_positions |-> sell_ledger(pos, address, submit),
                 orders |-> IF ok THEN Append(ords, Accepted(order)) ELSE ords,
                 log |-> <<Line(task, "selling", address, current_price),
                           Line(task,
                                IF ok /\ Held(pos, address) THEN "sell_sent"
                                ELSE "sell_error",
                                address, current_price)>>]

\* --------------------------------------------------------- position monitor
\* asyncio.create_task(monitor_price(token)): the task exists, it has not run.
NewMonitor(address) ==
    [token |-> address, pc |-> "created", initial_price |-> 0, amount_tokens |-> 0]

monitor_seed_swapped(mon, pos) ==
    IF Held(pos, mon.token)
    THEN [mon EXCEPT !.pc = "running",
                     !.initial_price = pos[mon.token].amount,
                     !.amount_tokens = pos[mon.token].initial_price]
    ELSE [mon EXCEPT !.pc = "crashed"]

\* The first lines of monitor_price: the task reads its position from the
\* ledger once; a missing key raises outside the try and ends the task.
monitor_seed(mon, pos) ==
    IF Held(pos, mon.token)
    THEN [mon EXCEPT !.pc = "running",
                     !.initial_price = pos[mon.token].initial_price,
                     !.amount_tokens = pos[mon.token].amount]
    ELSE [mon EXCEPT !.pc = "crashed"]

KeepsWatching(mon) == [mon EXCEPT !.pc = "sleeping"]

\* The break after the sell: the task leaves monitor_price, its locals are gone.
Finished(mon) ==
    [mon EXCEPT !.pc = "done", !.initial_price = 0, !.amount_tokens = 0]

GivesUp(mon) == Finished(mon)

\* await asyncio.sleep(300) at lines 361, 374 and 379: the task stays in
\* its while loop.
Asleep(mon) == [mon EXCEPT !.pc = "sleeping"]

RetryUnlessSold(mon, ret) == IF ret THEN Finished(mon) ELSE KeepsWatching(mon)

\* await sell_token(...) followed by break: what sell_token returned is
\* not looked at.
AfterSell(mon, ret) == Finished(mon)

ProfitTargetExceeded(current_price, initial_price) ==
    current_price > initial_price * PROFIT_MULTIPLIER

ProfitTargetReached(current_price, initial_price) ==
    current_price >= initial_price * PROFIT_MULTIPLIER

\* One pass of the while loop of monitor_price, run by task `i`, from the
\* read of the asks to the next sleep or to the break.
monitor_tick(i, mon, best_ask, sell_ask, submit, pos, ords, clock) ==
    LET wait(msg) == [monitor |-> Asleep(mon), sent |-> << >>,
                      open_positions |-> pos, orders |-> ords,
                      log |-> <<Line(i, msg, mon.token, best_ask.price)>>]
    IN  IF best_ask.status = "raise" THEN wait("monitor_error")
        ELSE IF best_ask.status = "empty" THEN wait("no_asks_monitor")
        ELSE IF ProfitTargetReached(best_ask.price, mon.initial_price)
        THEN LET r == sell_token(i, mon.token, mon.initial_price, mon.amount_tokens,
                                 sell_ask, submit, pos, ords, clock)
             IN  [monitor |-> AfterSell(mon, r.ret), sent |-> r.sent,
                  open_positions |-> r.open_positions, orders |-> r.orders,
                  log |-> <<Line(i, "current_price", mon.token, best_ask.price),
                            Line(i, "target_reached", mon.token, best_ask.price)>>
                          \o r.log]
        ELSE wait("current_price")

\* ---------------------------------------------------------------- actions
Init ==
    /\ open_positions = << >>
    /\ loop_pc = "start"
    /\ pending = 0
    /\ monitors = << >>
    /\ orders = << >>
    /\ sent = << >>
    /\ submitted = [a \in Addrs |-> 0]
    /\ now = 0
    /\ log = << >>
    /\ screened = << >>

\* tokens = await fetch_new_tokens(): a list of candidates, empty when the
\* fetch raises.  A candidate is a dictionary nothing changes and only its
\* own pass reads, so its fields are drawn when its pass runs.
Fetch ==
    /\ loop_pc \in {"start", "sleep"}
    /\ \E n \in 0..MaxTokens, raises \in BOOLEAN :
          /\ pending' = IF raises THEN 0 ELSE n
          /\ log' = <<Line(MainTask, IF raises THEN "fetch_error" ELSE "fetched", "", n)>>
    /\ sent' = << >>
    /\ loop_pc' = "iterate"
    /\ screened' = << >>
    /\ UNCHANGED <<open_positions, monitors, orders, submitted, now>>

\* What a pass has read of its candidate at time `clock`; rug and social are
\* the answer of the collaborator, or empty when the pass did not ask it.
Read(token, clock, rug, social) ==
    [contract_address |-> token.contract_address,
     age |-> time_since_launch(token.launch_time, clock),
     market_cap |-> token.market_cap,
     has_live_streams |-> token.has_live_streams,
     rug |-> rug, social |-> social]

\* What is kept of the reads of a pass.
Seen(keep, token, rug, social) ==
    IF keep THEN <<Read(token, now, rug, social)>> ELSE << >>

\* A pass of the for loop that ends in `continue`.
Skip(token, msg, seen) ==
    /\ log' = <<Line(MainTask, msg, token.contract_address, 0)>>
    /\ screened' = seen
    /\ sent' = << >>
    /\ UNCHANGED <<open_positions, monitors, orders, submitted>>

SpawnAlways(mons, address, buy_success) == Append(mons, NewMonitor(address))

\* if buy_success: asyncio.create_task(monitor_price(token))
Spawn(mons, address, buy_success) ==
    IF buy_success THEN Append(mons, NewMonitor(address)) ELSE mons

\* A pass of the for loop that reaches buy_token.
Buy(token, best_bid, submit, seen) ==
    LET r == buy_token(MainTask, token, AMOUNT_SOL, best_bid, submit,
                       open_positions, orders, now)
    IN  /\ screened' = seen
        /\ open_positions' = r.open_positions
        /\ orders' = r.orders
        /\ sent' = r.sent
        /\ submitted' = IF r.ret
                         THEN [submitted EXCEPT ![token.contract_address] = 0]
                         ELSE submitted
        /\ monitors' = Spawn(monitors, token.contract_address, r.ret)
        /\ log' = r.log

\* One pass of the for loop of monitor_and_trade over a candidate.
Pass(token, keep) ==
    IF ~AgeInWindow(time_since_launch(token.launch_time, now))
    THEN Skip(token, "skip_launch_time", Seen(keep, token, << >>, << >>))
    ELSE IF ~CapInWindow(token.market_cap)
    THEN Skip(token, "skip_market_cap", Seen(keep, token, << >>, << >>))
    ELSE IF token.has_live_streams
    THEN Skip(token, "skip_live_streams", Seen(keep, token, << >>, << >>))
    ELSE \E rug \in RugResponses :
        IF ~check_rug_pull(rug)
        THEN Skip(token, "skip_rug_pull", Seen(keep, token, <<rug>>, << >>))
        ELSE \E social \in SocialResponses :
            IF ~check_social_media(social)
            THEN Skip(token, "skip_social_media", Seen(keep, token, <<rug>>, <<social>>))
            ELSE IF AlreadyHolding(open_positions, token.contract_address)
            THEN Skip(token, "already_holding", Seen(keep, token, <<rug>>, <<social>>))
            ELSE \E best_bid \in BookReads(BidPrices), submit \in SubmitOutcomes :
                    Buy(token, best_bid, submit, Seen(keep, token, <<rug>>, <<social>>))

\* The for loop takes its next candidate.
ForLoopPass(keep) ==
    /\ loop_pc = "iterate"
    /\ pending > 0
    /\ Len(orders) < MaxOrders
    /\ \E token \in Tokens(now) : Pass(token, keep)
    /\ pending' = pending - 1
    /\ UNCHANGED <<loop_pc, now>>

Candidate == ForLoopPass(FALSE)

LoopErrorUnwinds(pc) == "exited"

\* except Exception (lines 428-430): the failure is logged and mailed, and
\* the loop goes on to its sleep at line 434.
AfterLoopError(pc) == "sleep"

\* A pass of the for loop raises (a candidate lacks a key, or a field has a
\* type the comparisons reject): the rest of the for loop is abandoned.
PassRaises ==
    /\ loop_pc = "iterate"
    /\ pending > 0
    /\ loop_pc' = AfterLoopError(loop_pc)
    /\ pending' = 0
    /\ log' = <<Line(MainTask, "loop_error", "", 0)>>
                \o IF AfterLoopError(loop_pc) = "sleep"
                   THEN <<Line(MainTask, "sleeping", "", 0)>> ELSE << >>
    /\ sent' = << >>
    /\ screened' = << >>
    /\ UNCHANGED <<open_positions, monitors, orders, submitted, now>>

\* The for loop is over: the loop logs and sleeps 10 minutes.
EndCycle ==
    /\ loop_pc = "iterate"
    /\ pending = 0
    /\ loop_pc' = "sleep"
    /\ log' = <<Line(MainTask, "sleeping", "", 0)>>
    /\ sent' = << >>
    /\ screened' = << >>
    /\ UNCHANGED <<open_positions, pending, monitors, orders, submitted, now>>

\* The effect of a tick of task i on the state.
MonitorStep(i, prefix, r) ==
    /\ monitors' = [monitors EXCEPT ![i] = r.monitor]
    /\ open_positions' = r.open_positions
    /\ orders' = r.orders
    /\ sent' = r.sent
    /\ submitted' = IF r.sent # << >>
                     THEN [submitted EXCEPT ![r.monitor.token] = @ + 1]
                     ELSE submitted
    /\ log' = prefix \o r.log

\* Task i runs from where it is to its next sleep or to its end.  The venue
\* is read a second time, and an order submitted, only inside sell_token.
MonitorRun(i, mon, prefix) ==
    \E best_ask \in BookReads(AskPrices) :
        IF best_ask.status = "ok" /\ ProfitTargetReached(best_ask.price, mon.initial_price)
        THEN \E sell_ask \in BookReads(AskPrices), submit \in SubmitOutcomes :
                MonitorStep(i, prefix,
                            monitor_tick(i, mon, best_ask, sell_ask, submit,
                                         open_positions, orders, now))
        ELSE MonitorStep(i, prefix,
                         monitor_tick(i, mon, best_ask, best_ask, "rejected",
                                      open_positions, orders, now))

\* Task i, created and not yet run, runs for the first time.
MonitorStartOf(i) ==
    /\ loop_pc = "sleep"
    /\ Len(orders) < MaxOrders
    /\ i \in 1..Len(monitors)
    /\ monitors[i].pc = "created"
    /\ LET mon == monitor_seed(monitors[i], open_positions)
       IN  IF mon.pc = "crashed"
           THEN /\ monitors' = [monitors EXCEPT ![i] = mon]
                /\ log' = << >>
                /\ sent' = << >>
                /\ UNCHANGED <<open_positions, orders, submitted>>
           ELSE MonitorRun(i, mon,
                           <<Line(i, "monitoring", mon.token, mon.initial_price)>>)
    /\ screened' = << >>
    /\ UNCHANGED <<loop_pc, pending, now>>

\* A created task runs for the first time.
MonitorStart == \E i \in 1..Len(monitors) : MonitorStartOf(i)

\* Task i wakes up after its 5 minutes of sleep.
MonitorTickOf(i) ==
    /\ loop_pc = "sleep"
    /\ Len(orders) < MaxOrders
    /\ i \in 1..Len(monitors)
    /\ monitors[i].pc = "sleeping"
    /\ MonitorRun(i, monitors[i], << >>)
    /\ screened' = << >>
    /\ UNCHANGED <<loop_pc, pending, now>>

\* A sleeping task wakes up after its 5 minutes.
MonitorTick == \E i \in 1..Len(monitors) : MonitorTickOf(i)

\* A second passes.
Tick ==
    /\ now < MaxTime
    /\ now' = now + 1
    /\ log' = << >>
    /\ sent' = << >>
    /\ screened' = << >>
    /\ UNCHANGED <<open_positions, loop_pc, pending, monitors, orders, submitted>>

Next ==
    Fetch \/ Candidate \/ PassRaises \/ EndCycle \/ MonitorStart \/ MonitorTick \/ Tick

Spec == Init /\ [][Next]_vars

\* A step of the monitor_and_trade task.
LoopStep == Fetch \/ Candidate \/ PassRaises \/ EndCycle

\* The steps of the tasks, the clock left as it is.
NextTasks == LoopStep \/ MonitorStart \/ MonitorTick

\* The bot on an event loop that keeps running the discovery task: every
\* call the task makes returns or raises, and asyncio.sleep(600) ends.  The
\* clock is left out: no task waits for a value of it, it only stamps the
\* orders.
SpecLoopFair == Init /\ [][NextTasks]_vars /\ WF_vars(LoopStep)

\* The bot on an event loop that keeps running every task: the discovery
\* task as above, and every monitor task that has not ended.  A monitor can
\* run whenever the discovery task sleeps; its own sleep of 300 seconds
\* ends within the 600 seconds of that sleep, so a monitor that can run
\* again and again does run.
SpecFair ==
    /\ Spec
    /\ WF_vars(LoopStep)
    /\ \A i \in 1..MaxOrders : SF_vars(MonitorStartOf(i) \/ MonitorTickOf(i))

\* buy_token called on its own, by a task that makes none of the checks of
\* the for loop and creates no monitor.  Like every other task it runs while
\* the discovery loop sleeps; buy_token reads only the candidate's address.
EngineBuy ==
    /\ loop_pc = "sleep"
    /\ Len(orders) < MaxOrders
    /\ \E token \in {t \in Tokens(now) : ~t.has_live_streams /\ t.market_cap = MIN_MARKET_CAP
                                      /\ now - t.launch_time = MIN_AGE_HOURS * SecondsPerHour},
          best_bid \in BookReads(BidPrices), submit \in SubmitOutcomes :
          LET r == buy_token(MainTask, token, AMOUNT_SOL, best_bid, submit,
                             open_positions, orders, now)
          IN  /\ open_positions' = r.open_positions
              /\ orders' = r.orders
              /\ sent' = r.sent
              /\ submitted' = IF r.ret
                               THEN [submitted EXCEPT ![token.contract_address] = 0]
                               ELSE submitted
              /\ log' = r.log
    /\ screened' = << >>
    /\ UNCHANGED <<loop_pc, pending, monitors, now>>

NextEngine == Next \/ EngineBuy

\* The bot together with direct calls of the execution engine's buy.
SpecEngine == Init /\ [][NextEngine]_vars

\* A pass of the for loop that leaves what it read in `screened`.
Screening == ForLoopPass(TRUE)

NextScreening ==
    Fetch \/ Screening \/ PassRaises \/ EndCycle \/ MonitorStart \/ MonitorTick

\* The bot within one second of the clock, every pass of the for loop
\* leaving what it read in `screened`.  A pass reads the clock only to take
\* the candidate's age, and the candidates drawn have the same ages at
\* every value of the clock.
SpecScreening == Init /\ [][NextScreening]_vars

\* ------------------------------------------------------------ observations
Lines(l) == {l[k] : k \in 1..Len(l)}

Logged(l, msg, address) == \E x \in Lines(l) : x.msg = msg /\ x.token = address

\* The accepted orders of one side for an address.
AcceptedOrders(side, address) ==
    {k \in 1..Len(orders) : orders[k].side = side /\ orders[k].token = address}

\* The latest accepted order for an address is a buy.
BoughtLast(address) ==
    \E k \in AcceptedOrders("buy", address) :
        \A j \in AcceptedOrders("sell", address) : j < k

\* A monitor task of the address exists and has not ended.
Watched(address) ==
    \E i \in 1..Len(monitors) :
        monitors[i].token = address /\ monitors[i].pc \in {"created", "sleeping"}

\* The price task i was, or is about to be, seeded with.
SeedPrice(i) ==
    IF monitors[i].pc # "created" THEN monitors[i].initial_price
    ELSE IF Held(open_positions, monitors[i].token)
    THEN open_positions[monitors[i].token].initial_price
    ELSE 0

BuyMsgs == {"no_bids", "buy_error", "buying", "buy_sent"}

SellMsgs == {"no_asks_sell", "below_target", "sell_error", "selling", "sell_sent"}

SkipMsgs == {"skip_launch_time", "skip_market_cap", "skip_live_streams",
             "skip_rug_pull", "skip_social_media", "already_holding"}

\* The risk collaborator was asked, answered with success and did not
\* report a rug pull.
RiskSafe(c) ==
    /\ Len(c.rug) = 1
    /\ ~c.rug[1].raises
    /\ c.rug[1].status_code = HTTP_OK
    /\ c.rug[1].isRugPull # "true"

\* The social collaborator was asked, answered with success and listed at
\* least one account.
HasSocialAccount(c) ==
    /\ Len(c.social) = 1
    /\ ~c.social[1].raises
    /\ c.social[1].status_code = HTTP_OK
    /\ c.social[1].socialMedia >= 1

\* The latest step was a tick of a monitor of the address in which the ask
\* could not be read or was below target, or the sell it made was not
\* accepted.
Unfavourable(address) ==
    \E x \in Lines(log) :
        /\ x.token = address
        /\ \/ x.msg \in {"monitor_error", "no_asks_monitor", "below_target",
                          "no_asks_sell", "sell_error"}
           \/ x.msg = "current_price" /\ ~Logged(log, "target_reached", address)

\* buy_token ran for the address in the step that wrote log l.
BuyInvoked(l, address) == \E x \in Lines(l) : x.msg \in BuyMsgs /\ x.token = address

\* ------------------------------------------------------------------ claims

\* C1: while an address is held, no step hands a buy order for it to the
\* venue: a further attempt for it is turned away before buy_token.
C1_NoBuyWhileHeld ==
    [][\A a \in DOMAIN open_positions :
          \A o \in Lines(sent') : ~(o.side = "buy" /\ o.token = a)]_vars

\* C1 witness: a candidate that passed every other check was turned away
\* because its address is held.
C1_Witness ==
    \E a \in DOMAIN open_positions : Logged(log, "already_holding", a) /\ sent = << >>

\* C2: an address is in the ledger if and only if a monitor task of that
\* address is active.
C2_LedgerIffMonitor ==
    \A a \in Addrs : (a \in DOMAIN open_positions) <=> Watched(a)

\* C3: a step in which buy_token fails (it logs the empty book or an error)
\* leaves the ledger as it was and creates no monitor task.
C3_FailedBuyLeavesLedger ==
    [][(\E x \in Lines(log') : x.msg \in {"no_bids", "buy_error"})
          => open_positions' = open_positions /\ monitors' = monitors]_vars

\* C3 witness: the venue rejected a buy order while another position was
\* open.
C3_Witness ==
    /\ \E x \in Lines(log) : x.msg = "buy_error"
    /\ \E o \in Lines(sent) : o.side = "buy" /\ o.token \notin DOMAIN open_positions
    /\ DOMAIN open_positions # {}

\* C4: an address whose latest accepted order is a buy has a position in
\* the ledger, with the price and quantity of that buy while it is the
\* order just sent.
C4_AcceptedBuyIsInLedger ==
    \A a \in Addrs :
        BoughtLast(a) =>
            /\ a \in DOMAIN open_positions
            /\ \A o \in Lines(sent) :
                  (o.side = "buy" /\ o.token = a) =>
                      open_positions[a] = [initial_price |-> o.limit_price,
                                           amount |-> o.max_quantity]

\* C4 witness: the venue has just accepted a buy order.
C4_Witness ==
    \E a \in Addrs :
        /\ Logged(log, "buy_sent", a)
        /\ BoughtLast(a)
        /\ a \in DOMAIN open_positions

\* C5: buy_token called for an address that is held hands no order to the
\* venue and leaves the entry of that address as it is.
C5_BuyRefusesHeldAddress ==
    [][\A a \in DOMAIN open_positions :
          (\E x \in Lines(log') : x.token = a /\ x.msg \in BuyMsgs)
              => /\ sent' = << >>
                 /\ a \in DOMAIN open_positions'
                 /\ open_positions'[a] = open_positions[a]]_vars

\* C6: in a step in which task i logs the ask it observed, the task calls
\* sell_token if and only if that ask is at least PROFIT_MULTIPLIER times
\* the price the task is seeded with; a task that observed no ask makes no
\* call.
C6_SellAttemptIffTargetReached ==
    [][\A i \in 1..Len(monitors) :
          LET observed == {x \in Lines(log') : x.task = i /\ x.msg = "current_price"}
              attempt == \E x \in Lines(log') : x.task = i /\ x.msg \in SellMsgs
          IN  /\ \A x \in observed :
                    attempt <=> x.price >= SeedPrice(i) * PROFIT_MULTIPLIER
              /\ attempt => observed # {}]_vars

\* C6 witness: a task seeded with a price observed exactly
\* PROFIT_MULTIPLIER times that price and called sell_token.
C6_Witness ==
    \E x, y, z \in Lines(log) :
        /\ x.msg = "monitoring" /\ y.msg = "current_price" /\ z.msg \in SellMsgs
        /\ y.task = x.task /\ z.task = x.task
        /\ y.price = x.price * PROFIT_MULTIPLIER

\* C7: every sell order handed to the venue is for an address with an
\* active monitor and has a limit price of at least PROFIT_MULTIPLIER times
\* that monitor's seed price; a sell_token call that finds the ask below
\* target, or no ask, hands over no order and leaves the ledger as it was.
C7_NoSellBelowTarget ==
    [][/\ \A o \in Lines(sent') :
             o.side = "sell" =>
                 \E i \in 1..Len(monitors) :
                     /\ monitors[i].token = o.token
                     /\ monitors[i].pc \in {"created", "sleeping"}
                     /\ o.limit_price >= SeedPrice(i) * PROFIT_MULTIPLIER
       /\ (\E x \in Lines(log') : x.msg \in {"below_target", "no_asks_sell"})
             => sent' = << >> /\ open_positions' = open_positions]_vars

\* C7 witness: a sell order has been handed to the venue after sell_token
\* read an ask different from the one the monitor had observed.
C7_Witness ==
    \E o \in Lines(sent), x \in Lines(log) :
        /\ o.side = "sell"
        /\ x.msg = "current_price" /\ x.token = o.token
        /\ x.price # o.limit_price

\* C8: a step removes an address from the ledger if and only if it appends
\* an accepted sell order for that address; in any other step the entry of
\* a held address keeps its initial price and amount.
C8_RemovedIffSellAccepted ==
    [][\A a \in DOMAIN open_positions :
          LET sold == /\ Len(orders') = Len(orders) + 1
                      /\ orders'[Len(orders')].side = "sell"
                      /\ orders'[Len(orders')].token = a
          IN  /\ sold <=> a \notin DOMAIN open_positions'
              /\ ~sold => open_positions'[a] = open_positions[a]]_vars

\* C8 witness: the venue rejected a sell order and the position is still
\* in the ledger.
C8_Witness ==
    \E o \in Lines(sent) :
        /\ o.side = "sell"
        /\ Logged(log, "sell_error", o.token)
        /\ o.token \in DOMAIN open_positions

\* C9: for every address at most one sell order has been handed to the
\* venue since the address was last bought, and exactly one once that
\* position has left the ledger.
C9_ExactlyOneSell ==
    \A a \in Addrs :
        /\ submitted[a] <= 1
        /\ (AcceptedOrders("buy", a) # {} /\ a \notin DOMAIN open_positions)
              => submitted[a] = 1

\* C9 witness: a position has been bought and sold.
C9_Witness ==
    \E a \in Addrs :
        /\ AcceptedOrders("buy", a) # {}
        /\ a \notin DOMAIN open_positions
        /\ submitted[a] = 1

\* C10: no two accepted orders carry the same client identifier.
C10_ClientIdsDiffer ==
    \A j, k \in 1..Len(orders) :
        j # k => orders[j].client_id # orders[k].client_id

\* C11: a pass of the for loop calls buy_token for its candidate if and
\* only if the candidate's age is within [5, 10] hours, its market cap
\* within [5000, 10000], it has no live stream, the risk check is safe, it
\* has a social account and its address is not held: a pass that calls
\* buy_token has read all of these, a pass that does not has read the one
\* that fails and names it; a candidate whose age is outside the window is
\* skipped and no order is handed to the venue.
C11_BuyIffScreeningPasses ==
    [][\A c \in Lines(screened') :
          LET age_ok == /\ MIN_AGE_HOURS * SecondsPerHour <= c.age
                        /\ c.age <= MAX_AGE_HOURS * SecondsPerHour
              cap_ok == MIN_MARKET_CAP <= c.market_cap /\ c.market_cap <= MAX_MARKET_CAP
              held == c.contract_address \in DOMAIN open_positions
              skipped(msg) == Logged(log', msg, c.contract_address)
          IN  /\ BuyInvoked(log', c.contract_address)
                    <=> /\ age_ok
                        /\ cap_ok
                        /\ ~c.has_live_streams
                        /\ RiskSafe(c)
                        /\ HasSocialAccount(c)
                        /\ ~held
              /\ BuyInvoked(log', c.contract_address)
                    <=> ~(\E x \in Lines(log') : x.msg \in SkipMsgs)
              /\ skipped("skip_launch_time") => ~age_ok
              /\ skipped("skip_market_cap") => ~cap_ok
              /\ skipped("skip_live_streams") => c.has_live_streams
              /\ skipped("skip_rug_pull") => Len(c.rug) = 1 /\ ~RiskSafe(c)
              /\ skipped("skip_social_media") => Len(c.social) = 1 /\ ~HasSocialAccount(c)
              /\ skipped("already_holding") => held
              /\ ~age_ok => skipped("skip_launch_time") /\ sent' = << >>]_vars

\* C11 witness: buy_token was called for a candidate that is exactly 5
\* hours old with a market cap of exactly 5000.
C11_Witness ==
    \E c \in Lines(screened) :
        /\ c.age = MIN_AGE_HOURS * SecondsPerHour
        /\ c.market_cap = MIN_MARKET_CAP
        /\ BuyInvoked(log, c.contract_address)
        /\ sent # << >>

\* C12: after a pass in which the risk collaborator reported a rug pull,
\* answered with a status other than 200 or raised, or in which the social
\* collaborator listed no account, answered with a status other than 200
\* or raised, the candidate has been skipped, buy_token has not run, no
\* order has been handed to the venue and the for loop is still running.
C12_ScreeningFailsClosed ==
    \A c \in Lines(screened) :
        LET rug_failed == \E r \in Lines(c.rug) :
                    r.raises \/ r.status_code # HTTP_OK \/ r.isRugPull = "true"
            social_failed == \E r \in Lines(c.social) :
                    r.raises \/ r.status_code # HTTP_OK \/ r.socialMedia = 0
        IN  (rug_failed \/ social_failed)
                => /\ \E x \in Lines(log) :
                         x.token = c.contract_address /\ x.msg \in SkipMsgs
                   /\ ~BuyInvoked(log, c.contract_address)
                   /\ sent = << >>
                   /\ loop_pc = "iterate"

\* C12 witness: the call of the social collaborator raised for a candidate
\* the risk collaborator had found safe, and another candidate is left.
C12_Witness ==
    \E c \in Lines(screened) :
        /\ RiskSafe(c)
        /\ \E r \in Lines(c.social) : r.raises
        /\ Logged(log, "skip_social_media", c.contract_address)
        /\ pending > 0

\* C13: the discovery loop never ends: whatever failed in the iterations
\* before, it starts a further iteration, again and again.
C13_LoopNeverTerminates == []<>(loop_pc = "iterate")

\* C13 witness: a pass of the for loop raised while positions were open, and
\* the loop is in its sleep.
C13_Witness ==
    /\ Logged(log, "loop_error", "")
    /\ loop_pc = "sleep"
    /\ DOMAIN open_positions # {}

\* C14: with every task scheduled fairly, an open position is eventually
\* sold and removed from the ledger unless, again and again, a tick of its
\* monitor finds the ask unreadable or below target or its sell order is
\* not accepted (followed here until MaxOrders orders have been accepted).
C14_FavourableMarketSells ==
    \A a \in Addrs :
        (a \in DOMAIN open_positions)
            ~> \/ a \notin DOMAIN open_positions
               \/ Unfavourable(a)
               \/ Len(orders) >= MaxOrders

\* C15: after a step in which sell_token found the ask below target or its
\* order was not accepted, the position is in the ledger and a monitor task
\* of its address is still there to attempt the sell again.
C15_FailedSellIsRetried ==
    [][\A a \in Addrs :
          (\E x \in Lines(log') : x.token = a /\ x.msg \in {"below_target", "sell_error"})
              => /\ a \in DOMAIN open_positions'
                 /\ Watched(a)']_vars

\* C16: a step in which a monitor task calls sell_token ends that task,
\* whatever sell_token found or returned; a task that has ended stays as
\* it is and logs nothing any more.
C16_OneSellAttemptThenClosed ==
    [][/\ \A x \in Lines(log') :
             x.msg \in SellMsgs => monitors'[x.task].pc = "done"
       /\ \A i \in 1..Len(monitors) :
             monitors[i].pc = "done"
                 => /\ monitors'[i] = monitors[i]
                    /\ \A x \in Lines(log') : x.task # i]_vars

\* C16 witness: a monitor task has ended in the step in which its
\* sell_token call found the ask below target; the position is still in
\* the ledger.
C16_Witness ==
    \E x \in Lines(log) :
        /\ x.msg = "below_target"
        /\ monitors[x.task].pc = "done"
        /\ x.token \in DOMAIN open_positions

\* C17: a tick in which the read of the asks raises, finds no ask or finds
\* an ask below target leaves the task asleep in its loop, hands no order
\* to the venue and leaves the ledger as it was; a task ends only in a step
\* in which it calls sell_token.
C17_NoExitWithoutSellAttempt ==
    [][\A i \in 1..Len(monitors') :
          LET mine == {x \in Lines(log') : x.task = i}
              waits == \E x \in mine :
                          \/ x.msg \in {"monitor_error", "no_asks_monitor"}
                          \/ /\ x.msg = "current_price"
                             /\ x.price < SeedPrice(i)' * PROFIT_MULTIPLIER
              ends == /\ monitors'[i].pc \notin {"created", "sleeping"}
                      /\ i \in 1..Len(monitors) => monitors[i].pc \in {"created", "sleeping"}
          IN  /\ waits => /\ monitors'[i].pc = "sleeping"
                          /\ open_positions' = open_positions
                          /\ sent' = << >>
              /\ ends => \E x \in mine : x.msg \in SellMsgs]_vars

\* C17 witness: the read of the asks raised in a tick, the task is asleep
\* and its position is in the ledger.
C17_Witness ==
    \E x \in Lines(log) :
        /\ x.msg = "monitor_error"
        /\ monitors[x.task].pc = "sleeping"
        /\ x.token \in DOMAIN open_positions

\* C18: a step in which buy_token succeeds at top bid p hands the venue
\* one buy order, at limit price p for AMOUNT_SOL / p tokens, and leaves
\* the entry {initial_price: p, amount: AMOUNT_SOL / p} in the ledger; a
\* monitor task in its loop carries the initial price and the amount of its
\* position's entry, and every sell order is for the whole amount of the
\* entry at a price of at least PROFIT_MULTIPLIER times its initial price.
C18_BuyEntryDrivesMonitor ==
    [][/\ \A x \in Lines(log') :
             (x.msg = "buying" /\ Logged(log', "buy_sent", x.token))
                 => /\ Len(sent') = 1
                    /\ sent'[1].side = "buy" /\ sent'[1].token = x.token
                    /\ sent'[1].limit_price = x.price
                    /\ sent'[1].max_quantity * x.price = AMOUNT_SOL
                    /\ x.token \in DOMAIN open_positions'
                    /\ open_positions'[x.token] =
                           [initial_price |-> x.price,
                            amount |-> sent'[1].max_quantity]
       /\ \A i \in 1..Len(monitors') :
             monitors'[i].pc = "sleeping"
                 => /\ monitors'[i].token \in DOMAIN open_positions'
                    /\ open_positions'[monitors'[i].token] =
                           [initial_price |-> monitors'[i].initial_price,
                            amount |-> monitors'[i].amount_tokens]
       /\ \A o \in Lines(sent') :
             o.side = "sell"
                 => /\ o.token \in DOMAIN open_positions
                    /\ o.max_quantity = open_positions[o.token].amount
                    /\ o.limit_price >=
                           open_positions[o.token].initial_price * PROFIT_MULTIPLIER]_vars

\* C18 witness: a monitor task seeded with initial price p has had its sell
\* order for AMOUNT_SOL / p tokens accepted.
C18_Witness ==
    \E o \in Lines(sent), x \in Lines(log) :
        /\ o.side = "sell"
        /\ x.msg = "monitoring" /\ x.token = o.token
        /\ o.max_quantity * x.price = AMOUNT_SOL
        /\ Logged(log, "sell_sent", o.token)

\* C19: an address enters the ledger only in a step in which buy_token
\* succeeds for it and leaves it only in a step in which sell_token
\* succeeds for it; while it stays, its entry keeps its initial price and
\* amount; a step that logs nothing about the address, and a step in which
\* neither call succeeds for it, leave its entry, or its absence, as it was.
C19_EntryChangesOnlyByOwnBuyOrSell ==
    [][\A a \in Addrs :
          LET before == a \in DOMAIN open_positions
              after == a \in DOMAIN open_positions'
              bought == Logged(log', "buy_sent", a)
              sold == Logged(log', "sell_sent", a)
              same == /\ before <=> after
                      /\ before => open_positions'[a] = open_positions[a]
          IN  /\ (~before /\ after) => bought
              /\ (before /\ ~after) => sold
              /\ (before /\ after) => open_positions'[a] = open_positions[a]
              /\ (\A x \in Lines(log') : x.token # a) => same
              /\ (~bought /\ ~sold) => same]_vars

\* C19 witness: the sell of one address has just been accepted while the
\* other address is in the ledger.
C19_Witness ==
    \E a, b \in Addrs :
        /\ a # b
        /\ a \in DOMAIN open_positions
        /\ Logged(log, "sell_sent", b)
        /\ b \notin DOMAIN open_positions

\* C20: no two monitor tasks of the same address are active at once, no
\* monitor task has ended on a missing ledger entry, and a task that has
\* not run yet has its address in the ledger.
C20_OneActiveMonitorPerAddress ==
    /\ \A i, j \in 1..Len(monitors) :
          (/\ i # j
           /\ monitors[i].pc \in {"created", "sleeping"}
           /\ monitors[j].pc \in {"created", "sleeping"})
              => monitors[i].token # monitors[j].token
    /\ \A i \in 1..Len(monitors) :
          /\ monitors[i].pc # "crashed"
          /\ monitors[i].pc = "created" => monitors[i].token \in DOMAIN open_positions

\* C20 witness: an address was bought, sold and bought again: its first
\* task has ended, its second task is active and the address is in the
\* ledger.
C20_Witness ==
    \E i, j \in 1..Len(monitors) :
        /\ i < j
        /\ monitors[i].token = monitors[j].token
        /\ monitors[i].pc = "done"
        /\ monitors[j].pc \in {"created", "sleeping"}
        /\ monitors[j].token \in DOMAIN open_positions
        /\ AcceptedOrders("sell", monitors[j].token) # {}

====
